---- MODULE Spec2Model ----
(***************************************************************************)
(* Model of the health severity assessment service, ml_service/app.py.    *)
(*                                                                         *)
(* The service loads its tables once (model_data), then answers /predict  *)
(* requests: validation, predict_severity_and_urgency (severity model and *)
(* urgency model, with the rule-based fallback), determine_urgency_level, *)
(* get_recommendations and the age adjustment.                            *)
(*                                                                         *)
(* Numbers.  Scores (risk_score, ml_severity, rule_based_score) and the   *)
(* confidence percentage are integers in HUNDREDTHS: 8.0 is 800, 0.5 is   *)
(* 50, 75.0 % is 7500.  A class probability is an integer in units of     *)
(* 1/10000, so probability * 100 in hundredths of a percent is the same   *)
(* integer.  Symptom weights and the raw severity are plain integers, as  *)
(* in Symptom-severity.csv.  Python's round(x, 1) is modelled on exact    *)
(* decimals (round half to even).                                          *)
(*                                                                         *)
(* Specifications.  Spec serves one request at a time.  SpecConcurrent     *)
(* serves requests in parallel worker threads, predict() split into its    *)
(* steps.  SpecUrgency, SpecNormalizer and SpecRecommendations call        *)
(* determine_urgency_level, clean_symptom_name and get_recommendations on  *)
(* their own, over arguments the handler need not produce; SpecScoring     *)
(* does so for predict_severity_and_urgency, calculate_risk_score and      *)
(* create_feature_vector.                                                  *)
(*                                                                         *)
(* Strings are TLA+ strings; the string functions of the code (strip,     *)
(* lower, replace, the substring test "in") are computed character by     *)
(* character.  The siren emoji of the literals is written "(!)".          *)
(***************************************************************************)
EXTENDS Integers, Sequences, FiniteSets, TLC

VARIABLES
    model_data,   \* the tables loaded at startup (app.py:16-34)
    hash_order,   \* this process's iteration order of a set of category names
    pc,           \* "idle": waiting for a request; "done": a response is ready
    request,      \* the request being answered
    ml,           \* what the two models do for this request
    calls,        \* the model invocations made while answering it
    prediction,   \* the dict returned by predict_severity_and_urgency
    response,     \* the HTTP response of /predict
    threads,      \* the requests being served in parallel, one worker thread each
    call          \* a helper function called on its own: its arguments and result

vars == <<model_data, hash_order, pc, request, ml, calls, prediction, response,
          threads, call>>

----------------------------------------------------------------------------
(* Bounds *)

\* Longest symptom list of a request.
MaxSymptoms == 2

\* Largest raw severity given to calculate_risk_score on its own.
MaxRawSeverity == 60

\* Longest symptom string given to clean_symptom_name on its own.
MaxNameLen == 3

----------------------------------------------------------------------------
(* Sequences *)

Min(a, b) == IF a <= b THEN a ELSE b
Max(a, b) == IF a >= b THEN a ELSE b

InSeq(x, s) == \E i \in 1..Len(s) : s[i] = x

\* s[:n]
Take(s, n) == SubSeq(s, 1, Min(n, Len(s)))

RECURSIVE SumSeq(_)
SumSeq(s) == IF s = <<>> THEN 0 ELSE Head(s) + SumSeq(Tail(s))

\* Faulty variant: the first entry instead of the largest.
MaxOfSeq_First(s) == s[1]

MaxOfSeq(s) == CHOOSE m \in {s[i] : i \in 1..Len(s)} : \A i \in 1..Len(s) : s[i] <= m

\* All sequences over S of length at most n.
SeqsUpTo(S, n) == UNION {[1..k -> S] : k \in 0..n}

----------------------------------------------------------------------------
(* Strings *)

CharAt(s, i) == SubSeq(s, i, i)

IsSpace(c) == c \in {" ", "\t", "\n", "\r"}

RECURSIVE LStrip(_)
LStrip(s) ==
    IF Len(s) > 0 /\ IsSpace(CharAt(s, 1)) THEN LStrip(SubSeq(s, 2, Len(s))) ELSE s

RECURSIVE RStrip(_)
RStrip(s) ==
    IF Len(s) > 0 /\ IsSpace(CharAt(s, Len(s))) THEN RStrip(SubSeq(s, 1, Len(s) - 1)) ELSE s

\* str.strip()
Strip(s) == RStrip(LStrip(s))

LowerChar(c) ==
    CASE c = "A" -> "a" [] c = "B" -> "b" [] c = "C" -> "c" [] c = "D" -> "d"
      [] c = "E" -> "e" [] c = "F" -> "f" [] c = "G" -> "g" [] c = "H" -> "h"
      [] c = "I" -> "i" [] c = "J" -> "j" [] c = "K" -> "k" [] c = "L" -> "l"
      [] c = "M" -> "m" [] c = "N" -> "n" [] c = "O" -> "o" [] c = "P" -> "p"
      [] c = "Q" -> "q" [] c = "R" -> "r" [] c = "S" -> "s" [] c = "T" -> "t"
      [] c = "U" -> "u" [] c = "V" -> "v" [] c = "W" -> "w" [] c = "X" -> "x"
      [] c = "Y" -> "y" [] c = "Z" -> "z" [] OTHER -> c

\* str.lower()
RECURSIVE Lower(_)
Lower(s) ==
    IF Len(s) = 0 THEN "" ELSE LowerChar(CharAt(s, 1)) \o Lower(SubSeq(s, 2, Len(s)))

\* str.replace(old, new) for a one-character old
RECURSIVE Replace(_, _, _)
Replace(s, old, new) ==
    IF Len(s) = 0 THEN ""
    ELSE (IF CharAt(s, 1) = old THEN new ELSE CharAt(s, 1))
         \o Replace(SubSeq(s, 2, Len(s)), old, new)

\* sub in s
Contains(sub, s) ==
    \E i \in 1..(Len(s) - Len(sub) + 1) : SubSeq(s, i, i + Len(sub) - 1) = sub

IsDigit(c) == c \in {"0", "1", "2", "3", "4", "5", "6", "7", "8", "9"}

DigitValue(c) ==
    CASE c = "0" -> 0 [] c = "1" -> 1 [] c = "2" -> 2 [] c = "3" -> 3 [] c = "4" -> 4
      [] c = "5" -> 5 [] c = "6" -> 6 [] c = "7" -> 7 [] c = "8" -> 8 [] c = "9" -> 9

RECURSIVE DecimalValue(_)
DecimalValue(s) ==
    IF Len(s) = 0 THEN 0
    ELSE 10 * DecimalValue(SubSeq(s, 1, Len(s) - 1)) + DigitValue(CharAt(s, Len(s)))

----------------------------------------------------------------------------
(* Rounding *)

\* n / d (n >= 0, d > 0) rounded to the nearest integer, ties to even.
RoundHalfEven(n, d) ==
    LET q == n \div d
        r == n % d
    IN  IF 2 * r < d THEN q
        ELSE IF 2 * r > d THEN q + 1
        ELSE IF q % 2 = 0 THEN q ELSE q + 1

\* round(x, 1) of x = n / d hundredths: a multiple of 10 hundredths.
Round1(n, d) == 10 * RoundHalfEven(n, 10 * d)

----------------------------------------------------------------------------
(* The tables of the model package (train_model.py), loaded by app.py *)

\* symptom_categories, in the dict's insertion order.
symptom_categories ==
    << [category |-> "respiratory",
        symptoms |-> <<"cough", "breathlessness", "chest_pain", "shortness_of_breath",
                       "high_fever", "mild_fever", "sore_throat", "runny_nose">>],
       [category |-> "gastrointestinal",
        symptoms |-> <<"vomiting", "nausea", "diarrhoea", "abdominal_pain",
                       "stomach_pain", "constipation", "indigestion">>],
       [category |-> "neurological",
        symptoms |-> <<"headache", "dizziness", "migraine", "fatigue", "lethargy",
                       "loss_of_balance", "blurred_vision", "vertigo">>],
       [category |-> "emergency",
        symptoms |-> <<"chest_pain", "severe_chest_pain", "shortness_of_breath",
                       "coma", "stroke", "passing_out", "seizure">>],
       [category |-> "musculoskeletal",
        symptoms |-> <<"joint_pain", "back_pain", "neck_pain", "muscle_pain",
                       "pain_in_anal_region", "painful_walking">>] >>

\* The loop that fills symptom_to_category: a symptom listed under several
\* categories keeps the last one written.
symptom_to_category ==
    LET listed == UNION {{symptom_categories[c].symptoms[i] :
                             i \in 1..Len(symptom_categories[c].symptoms)} :
                         c \in 1..Len(symptom_categories)}
        last(s) == CHOOSE c \in 1..Len(symptom_categories) :
                      /\ InSeq(s, symptom_categories[c].symptoms)
                      /\ \A d \in (c + 1)..Len(symptom_categories) :
                            ~InSeq(s, symptom_categories[d].symptoms)
    IN  [s \in listed |-> symptom_categories[last(s)].category]

general_workouts ==
    << "Stay hydrated by drinking plenty of water",
       "Get adequate rest and sleep",
       "Eat a balanced, nutritious diet",
       "Practice stress-reduction techniques",
       "Maintain good personal hygiene" >>

urgency_recommendations ==
    [ low      |-> << "Schedule a routine doctor appointment",
                      "Practice self-care and monitoring",
                      "Follow general health guidelines",
                      "Consider over-the-counter remedies if appropriate" >>,
      moderate |-> << "Schedule appointment within 24-48 hours",
                      "Monitor symptoms closely",
                      "Avoid strenuous activities",
                      "Keep emergency contacts accessible" >>,
      high     |-> << "(!) SEEK IMMEDIATE MEDICAL ATTENTION",
                      "Call emergency services if severe",
                      "Do not delay seeking care",
                      "Have someone accompany you" >> ]

\* The package train_model.py saves.  symptom_weights and disease_workouts come
\* from Symptom-severity.csv and workout_df.csv: a sample of each.  The
\* vocabulary is the key list of the weight table, in the file's order.
TrainedPackage ==
    [ symptoms |-> <<"joint_pain", "vomiting", "cough", "chest_pain", "high_fever", "headache">>,
      symptom_weights |-> ("joint_pain" :> 3) @@ ("vomiting" :> 5) @@ ("cough" :> 4)
                          @@ ("chest_pain" :> 7) @@ ("high_fever" :> 7) @@ ("headache" :> 3),
      symptom_to_category |-> symptom_to_category,
      general_workouts |-> general_workouts,
      urgency_recommendations |-> urgency_recommendations,
      disease_workouts |->
          << [disease |-> "common cold",
              workouts |-> << "Stay hydrated", "Soothe a cough with warm fluids",
                              "Consume vitamin c-rich foods", "Include zinc-rich foods",
                              "Rest", "Gargle with salt water" >>],
             [disease |-> "migraine",
              workouts |-> << "Identify triggers", "Stay hydrated", "Eat regular meals",
                              "Limit caffeine and alcohol", "Include magnesium-rich foods",
                              "Consider riboflavin" >>],
             [disease |-> "typhoid",
              workouts |-> << "Eat high-calorie foods", "Rest", "Consult a doctor" >>] >>,
      emergency_threshold |-> 70,
      high_threshold |-> 42,
      moderate_threshold |-> 27,
      max_realistic_score |-> 50 ]

\* Another package app.py can load: heavier weights, a vocabulary that differs
\* from the weight table's keys, and recommendation tables that repeat strings
\* within a table, across tables and across the literal blocks of
\* get_recommendations.
OtherPackage ==
    [ symptoms |-> <<"cough", "fever", "chest_pain", "vomiting">>,
      symptom_weights |-> ("cough" :> 4) @@ ("vomiting" :> 25) @@ ("migraine" :> 45)
                          @@ ("passing_out" :> 30) @@ ("chest_pain" :> 7) @@ ("joint_pain" :> 3),
      symptom_to_category |-> symptom_to_category,
      general_workouts |-> << "Practice deep breathing exercises",
                              "Monitor symptoms for changes",
                              "Practice deep breathing exercises" >>,
      urgency_recommendations |->
          [ low      |-> << "Monitor symptoms for changes", "Rest",
                            "Monitor symptoms for changes" >>,
            moderate |-> << "Keep a symptom diary", "Rest" >>,
            high     |-> << "(!) SEEK IMMEDIATE MEDICAL ATTENTION",
                            "Have someone drive you to the hospital",
                            "(!) SEEK IMMEDIATE MEDICAL ATTENTION" >> ],
      disease_workouts |->
          << [disease |-> "hay fever",
              workouts |-> << "Rest", "Keep a symptom diary", "Avoid pollen",
                              "Inform someone of your situation",
                              "Practice good self-care", "Rinse sinuses" >>],
             [disease |-> "gerd",
              workouts |-> << "Avoid trigger foods", "Relieve vomiting with small sips",
                              "Eat small, frequent meals", "Avoid pollen" >>] >>,
      emergency_threshold |-> 70,
      high_threshold |-> 42,
      moderate_threshold |-> 27,
      max_realistic_score |-> 50 ]

Packages == {TrainedPackage, OtherPackage}

\* The cleaning train_model.py applies to the Symptom column of
\* Symptom-severity.csv: strip, lower, spaces to underscores, periods removed.
\* Hyphens are kept.
train_clean_symptom(symptom) ==
    Replace(Replace(Lower(Strip(symptom)), " ", "_"), ".", "")

\* Rows of a Symptom-severity.csv.
SeverityRows ==
    << [Symptom |-> "cough", weight |-> 4],
       [Symptom |-> "Passing-out", weight |-> 30],
       [Symptom |-> " Chest pain", weight |-> 7],
       [Symptom |-> "vomiting", weight |-> 25] >>

\* The package train_model.py builds from these rows: the vocabulary is the
\* list of the weight dictionary's keys.
CsvPackage ==
    LET cleaned == [i \in 1..Len(SeverityRows) |-> train_clean_symptom(SeverityRows[i].Symptom)]
    IN  [OtherPackage EXCEPT
            !.symptoms = cleaned,
            !.symptom_weights =
                [k \in {cleaned[i] : i \in 1..Len(cleaned)} |->
                    SeverityRows[CHOOSE i \in 1..Len(cleaned) : cleaned[i] = k].weight]]

\* Iteration orders of a set of category names (a Python set of strings iterates
\* in an order fixed within a process and not specified across processes).
CategoryOrders ==
    { <<"respiratory", "gastrointestinal", "neurological", "emergency", "musculoskeletal">>,
      <<"musculoskeletal", "neurological", "emergency", "gastrointestinal", "respiratory">> }

----------------------------------------------------------------------------
(* Inputs *)

\* Raw symptom strings a client sends.
SymptomPool ==
    {" Chest Pain.", "passing-out", "cough", "Vomiting", "migraine", "joint_pain", "fever"}

Absent == [kind |-> "absent", int |-> 0, str |-> ""]
IntAge(n) == [kind |-> "int", int |-> n, str |-> ""]
StrAge(s) == [kind |-> "str", int |-> 0, str |-> s]

\* Values of the "age" key: missing, JSON numbers, JSON strings.
AgeInputs == {Absent, IntAge(0), IntAge(60), IntAge(65), StrAge("61"), StrAge("sixty")}

\* The body request.get_json() returns: None ("none"), {} ("empty") or an object;
\* for an object, whether it has a "symptoms" key and whether its value is a list.
Requests ==
    {[json |-> "none", has_symptoms |-> FALSE, symptoms_is_list |-> FALSE,
      symptoms |-> <<>>, age |-> Absent],
     [json |-> "empty", has_symptoms |-> FALSE, symptoms_is_list |-> FALSE,
      symptoms |-> <<>>, age |-> Absent],
     [json |-> "object", has_symptoms |-> FALSE, symptoms_is_list |-> FALSE,
      symptoms |-> <<>>, age |-> IntAge(65)],
     [json |-> "object", has_symptoms |-> TRUE, symptoms_is_list |-> FALSE,
      symptoms |-> <<>>, age |-> IntAge(65)]}
    \cup
    [json : {"object"}, has_symptoms : {TRUE}, symptoms_is_list : {TRUE},
     symptoms : SeqsUpTo(SymptomPool, MaxSymptoms), age : AgeInputs]

\* Raw outputs of severity_model.predict, in hundredths (any real: below 0,
\* within [0, 10], above 10).  With these values and integer weights the blend
\* is never halfway between two tenths, where a binary float may round the
\* other way.
SeverityOutputs == {-150, 641, 933, 1230}

\* Outputs of urgency_model: the class label of predict and the class
\* probabilities of predict_proba, in units of 1/10000.
UrgencyOutputs ==
    { [urgency_pred |-> 0, proba |-> <<10000, 0, 0>>],
      [urgency_pred |-> 1, proba |-> <<617, 8766, 617>>],
      [urgency_pred |-> 2, proba |-> <<617, 8766, 617>>] }

\* What the models do for one request: every call succeeds ("none"), or the
\* step named by fail raises.
MLOutcomes ==
    [fail : {"none"}, severity : SeverityOutputs, urgency : UrgencyOutputs]
    \cup
    [fail : {"features", "severity", "urgency", "proba"},
     severity : {641}, urgency : {[urgency_pred |-> 1, proba |-> <<617, 8766, 617>>]}]

----------------------------------------------------------------------------
(* Helper functions of app.py *)

clean_symptom_name(symptom) ==
    Replace(Replace(Replace(Lower(Strip(symptom)), " ", "_"), ".", ""), "-", "_")

\* clean_symptom_name over the pool of inputs, computed once.
CleanedPool == [s \in SymptomPool |-> clean_symptom_name(s)]

\* [clean_symptom_name(s) for s in symptoms]
CleanAll(symptoms) ==
    [i \in 1..Len(symptoms) |->
        IF symptoms[i] \in SymptomPool THEN CleanedPool[symptoms[i]]
        ELSE clean_symptom_name(symptoms[i])]

\* The binary feature vector, in vocabulary order.
create_feature_vector(symptoms, T) ==
    LET cleaned_symptoms == CleanAll(symptoms)
    IN  [i \in 1..Len(T.symptoms) |->
            IF InSeq(T.symptoms[i], cleaned_symptoms) THEN 1 ELSE 0]

\* Faulty variant: each distinct normalized symptom is weighed once.
calculate_raw_severity_Distinct(symptoms, T) ==
    LET cleaned_symptoms == CleanAll(symptoms)
    IN  SumSeq([i \in 1..Len(cleaned_symptoms) |->
                   IF /\ cleaned_symptoms[i] \in DOMAIN T.symptom_weights
                      /\ \A j \in 1..(i - 1) : cleaned_symptoms[j] # cleaned_symptoms[i]
                   THEN T.symptom_weights[cleaned_symptoms[i]] ELSE 0])

\* Faulty variant: only symptoms of the vocabulary are weighed.
calculate_raw_severity_VocabularyOnly(symptoms, T) ==
    LET cleaned_symptoms == CleanAll(symptoms)
    IN  SumSeq([i \in 1..Len(cleaned_symptoms) |->
                   IF /\ cleaned_symptoms[i] \in DOMAIN T.symptom_weights
                      /\ InSeq(cleaned_symptoms[i], T.symptoms)
                   THEN T.symptom_weights[cleaned_symptoms[i]] ELSE 0])

\* total_weight: the weights of the normalized symptoms the table has.
calculate_raw_severity(symptoms, T) ==
    LET cleaned_symptoms == CleanAll(symptoms)
    IN  SumSeq([i \in 1..Len(cleaned_symptoms) |->
                   IF cleaned_symptoms[i] \in DOMAIN T.symptom_weights
                   THEN T.symptom_weights[cleaned_symptoms[i]] ELSE 0])

\* Faulty variant: the upper clamp is missing.
Clamp10_NoCeiling(x) == Max(0, x)

\* max(0, min(10, x)) in hundredths
Clamp10(x) == Max(0, Min(1000, x))

\* Faulty variant: the scaled score is cut to one decimal, not rounded.
calculate_risk_score_Truncated(raw_severity, ml_severity, T) ==
    IF ml_severity # <<>>
    THEN Round1(Clamp10(ml_severity[1]), 1)
    ELSE IF raw_severity > T.max_realistic_score
         THEN 1000
         ELSE 10 * ((Max(0, Min(1000 * T.max_realistic_score, raw_severity * 1000))
                     \div T.max_realistic_score) \div 10)

\* calculate_risk_score(raw_severity, ml_severity): ml_severity is <<>> for
\* None and <<v>> for a value v in hundredths.
calculate_risk_score(raw_severity, ml_severity, T) ==
    IF ml_severity # <<>>
    THEN Round1(Clamp10(ml_severity[1]), 1)
    ELSE IF raw_severity > T.max_realistic_score
         THEN Round1(Clamp10(1000), 1)
         ELSE \* (raw_severity / MAX_REALISTIC_SCORE) * 10, clamped, rounded
              Round1(Max(0, Min(1000 * T.max_realistic_score, raw_severity * 1000)),
                     T.max_realistic_score)

\* The model invocations made before the step o.fail raises (all of them when
\* nothing fails, none for an empty list), each with the feature vector it is
\* given.
ModelCalls(symptoms, T, o) ==
    LET X == create_feature_vector(symptoms, T)
        n == CASE symptoms = <<>>     -> 0
               [] o.fail = "features" -> 0
               [] o.fail = "severity" -> 1
               [] o.fail = "urgency"  -> 2
               [] OTHER               -> 3
    IN  SubSeq(<< [fn |-> "severity_model.predict", X |-> X],
                  [fn |-> "urgency_model.predict", X |-> X],
                  [fn |-> "urgency_model.predict_proba", X |-> X] >>, 1, n)

\* Faulty variant: the fallback reports the zero ml_severity of the empty-list result.
FallbackPrediction_ZeroMl(symptoms, T) ==
    LET raw_severity == calculate_raw_severity(symptoms, T)
        risk_score == calculate_risk_score(raw_severity, <<>>, T)
    IN  [ risk_score |-> risk_score,
          confidence |-> 7500,
          ml_severity |-> 0,
          raw_severity |-> raw_severity,
          rule_based_score |-> risk_score,
          urgency_pred |-> IF risk_score < 300 THEN 0 ELSE IF risk_score < 700 THEN 1 ELSE 2 ]

\* The except branch of predict_severity_and_urgency.
FallbackPrediction(symptoms, T) ==
    LET raw_severity == calculate_raw_severity(symptoms, T)
        risk_score == calculate_risk_score(raw_severity, <<>>, T)
    IN  [ risk_score |-> risk_score,
          confidence |-> 7500,
          ml_severity |-> risk_score,
          raw_severity |-> raw_severity,
          rule_based_score |-> risk_score,
          urgency_pred |-> IF risk_score < 300 THEN 0 ELSE IF risk_score < 700 THEN 1 ELSE 2 ]

\* Faulty variant: the blend takes the model's output as it came, before the
\* clamp.
ModelPrediction_RawBlend(symptoms, T, o) ==
    LET ml_severity == Clamp10(o.severity)
        raw_severity == calculate_raw_severity(symptoms, T)
        confidence == Round1(MaxOfSeq(o.urgency.proba), 1)
        rule_based_score == calculate_risk_score(raw_severity, <<>>, T)
        risk_score == Round1(Max(0, o.severity * 7 + rule_based_score * 3), 10)
    IN  [ risk_score |-> risk_score,
          confidence |-> confidence,
          ml_severity |-> ml_severity,
          raw_severity |-> raw_severity,
          rule_based_score |-> rule_based_score,
          urgency_pred |-> o.urgency.urgency_pred ]

\* The try branch of predict_severity_and_urgency, when no step raises.
ModelPrediction(symptoms, T, o) ==
    LET ml_severity == Clamp10(o.severity)
        raw_severity == calculate_raw_severity(symptoms, T)
        \* round(max(urgency_proba) * 100, 1)
        confidence == Round1(MaxOfSeq(o.urgency.proba), 1)
        rule_based_score == calculate_risk_score(raw_severity, <<>>, T)
        \* round(ml_severity * 0.7 + rule_based_score * 0.3, 1)
        risk_score == Round1(ml_severity * 7 + rule_based_score * 3, 10)
    IN  [ risk_score |-> risk_score,
          confidence |-> confidence,
          ml_severity |-> ml_severity,
          raw_severity |-> raw_severity,
          rule_based_score |-> rule_based_score,
          urgency_pred |-> o.urgency.urgency_pred ]

predict_severity_and_urgency(symptoms, T, o) ==
    IF symptoms = <<>>
    THEN [risk_score |-> 0, ml_severity |-> 0, raw_severity |-> 0]
    ELSE IF o.fail = "none"
         THEN ModelPrediction(symptoms, T, o)
         ELSE FallbackPrediction(symptoms, T)

emergency_symptoms ==
    << "chest_pain", "severe_chest_pain", "shortness_of_breath",
       "difficulty_breathing", "passing_out", "coma", "stroke",
       "heart_attack", "severe_bleeding", "severe_head_injury" >>

\* Faulty variant: the emergency list is looked up in the raw input strings.
has_emergency_symptom_Raw(symptoms) ==
    \E i \in 1..Len(emergency_symptoms) : InSeq(emergency_symptoms[i], symptoms)

has_emergency_symptom(symptoms) ==
    LET cleaned_symptoms == CleanAll(symptoms)
    IN  \E i \in 1..Len(emergency_symptoms) : InSeq(emergency_symptoms[i], cleaned_symptoms)

\* Faulty variant: the risk score is tested first and decides alone from 5 up,
\* so a raw severity above the emergency threshold no longer counts there.
determine_urgency_level_RiskFirst(raw_severity, risk_score, symptoms, T) ==
    IF has_emergency_symptom(symptoms) THEN "high"
    ELSE IF risk_score >= 500 THEN (IF risk_score >= 800 THEN "high" ELSE "moderate")
    ELSE IF raw_severity >= T.emergency_threshold THEN "high"
    ELSE IF raw_severity >= T.high_threshold THEN "moderate"
    ELSE "low"

\* Faulty variant: the comparisons are strict.
determine_urgency_level_Strict(raw_severity, risk_score, symptoms, T) ==
    IF \/ has_emergency_symptom(symptoms)
       \/ raw_severity > T.emergency_threshold
       \/ risk_score > 800
    THEN "high"
    ELSE IF raw_severity > T.high_threshold \/ risk_score > 500
         THEN "moderate"
         ELSE "low"

\* Faulty variant: a raw severity of MODERATE_THRESHOLD or more gives "moderate".
determine_urgency_level_ModerateThreshold(raw_severity, risk_score, symptoms, T) ==
    IF \/ has_emergency_symptom(symptoms)
       \/ raw_severity >= T.emergency_threshold
       \/ risk_score >= 800
    THEN "high"
    ELSE IF raw_severity >= T.moderate_threshold \/ risk_score >= 500
         THEN "moderate"
         ELSE "low"

determine_urgency_level(raw_severity, risk_score, symptoms, T) ==
    IF \/ has_emergency_symptom(symptoms)
       \/ raw_severity >= T.emergency_threshold
       \/ risk_score >= 800
    THEN "high"
    ELSE IF raw_severity >= T.high_threshold \/ risk_score >= 500
         THEN "moderate"
         ELSE "low"

----------------------------------------------------------------------------
(* get_recommendations *)

\* The cap of the returned list, and the length below which step 4 appends.
MaxRecommendations == 15
WorkoutFillLimit == 15

\* Step 2: the literal block of a category (none for "emergency").
CategoryBlock(category) ==
    CASE category = "respiratory" ->
           << "Use a humidifier to ease breathing",
              "Avoid smoking and air pollutants",
              "Practice deep breathing exercises",
              "Stay in well-ventilated areas" >>
      [] category = "gastrointestinal" ->
           << "Eat bland foods (bananas, rice, applesauce, toast)",
              "Avoid spicy, fatty, and dairy foods",
              "Stay hydrated with electrolyte solutions",
              "Eat small, frequent meals" >>
      [] category = "neurological" ->
           << "Avoid bright lights and loud noises",
              "Practice relaxation techniques (meditation, deep breathing)",
              "Maintain a regular sleep schedule",
              "Limit screen time" >>
      [] category = "musculoskeletal" ->
           << "Apply ice or heat as appropriate",
              "Practice gentle stretching",
              "Maintain good posture",
              "Avoid heavy lifting" >>
      [] OTHER -> <<>>

\* Faulty variant: the tiers start above 8 and above 5.
RiskBlock_Strict(risk_score) ==
    IF risk_score > 800
    THEN << "(!) DO NOT DELAY - Seek emergency care immediately",
            "Have someone drive you to the hospital",
            "Keep your phone charged and nearby",
            "Inform someone of your situation" >>
    ELSE IF risk_score > 500
         THEN << "Schedule medical appointment within 24 hours",
                 "Avoid driving if feeling unwell",
                 "Keep a symptom diary",
                 "Check temperature regularly" >>
         ELSE << "Monitor symptoms for changes",
                 "Consider telemedicine consultation",
                 "Practice good self-care",
                 "Follow up if symptoms persist beyond 3 days" >>

\* Step 5: the literal block of the risk tier.
RiskBlock(risk_score) ==
    IF risk_score >= 800
    THEN << "(!) DO NOT DELAY - Seek emergency care immediately",
            "Have someone drive you to the hospital",
            "Keep your phone charged and nearby",
            "Inform someone of your situation" >>
    ELSE IF risk_score >= 500
         THEN << "Schedule medical appointment within 24 hours",
                 "Avoid driving if feeling unwell",
                 "Keep a symptom diary",
                 "Check temperature regularly" >>
         ELSE << "Monitor symptoms for changes",
                 "Consider telemedicine consultation",
                 "Practice good self-care",
                 "Follow up if symptoms persist beyond 3 days" >>

\* symptom_categories_found, as the sequence its iteration yields.
CategoriesFound(cleaned_symptoms, T, order) ==
    LET found == {T.symptom_to_category[cleaned_symptoms[i]] :
                     i \in {j \in 1..Len(cleaned_symptoms) :
                               cleaned_symptoms[j] \in DOMAIN T.symptom_to_category}}
    IN  SelectSeq(order, LAMBDA c : c \in found)

RECURSIVE CategoryBlocks(_)
CategoryBlocks(categories) ==
    IF categories = <<>> THEN <<>>
    ELSE CategoryBlock(Head(categories)) \o CategoryBlocks(Tail(categories))

\* symptom.lower() in disease.lower() or any(symptom in w.lower() for w in workouts[:3])
DiseaseMatches(symptom, d) ==
    \/ Contains(Lower(symptom), Lower(d.disease))
    \/ \E k \in 1..Len(Take(d.workouts, 3)) : Contains(symptom, Lower(d.workouts[k]))

\* DiseaseMatches over the cleaned pool and the diseases of the packages,
\* computed once.
MatchTable ==
    [symptom \in {CleanedPool[s] : s \in SymptomPool} |->
        [d \in UNION {{T.disease_workouts[k] : k \in 1..Len(T.disease_workouts)} :
                        T \in Packages} |->
            DiseaseMatches(symptom, d)]]

Matches(symptom, d) ==
    IF symptom \in DOMAIN MatchTable /\ d \in DOMAIN MatchTable[symptom]
    THEN MatchTable[symptom][d]
    ELSE DiseaseMatches(symptom, d)

\* Faulty variant: the list may still grow when it has 15 entries.
RECURSIVE AddWorkouts_Inclusive(_, _)
AddWorkouts_Inclusive(recommendations, workouts) ==
    IF workouts = <<>> THEN recommendations
    ELSE AddWorkouts_Inclusive(IF /\ ~InSeq(Head(workouts), recommendations)
                                  /\ Len(recommendations) <= WorkoutFillLimit
                               THEN Append(recommendations, Head(workouts))
                               ELSE recommendations,
                               Tail(workouts))

\* for workout in workouts: append it if it is new and the list is below the limit
RECURSIVE AddWorkouts(_, _)
AddWorkouts(recommendations, workouts) ==
    IF workouts = <<>> THEN recommendations
    ELSE AddWorkouts(IF /\ ~InSeq(Head(workouts), recommendations)
                        /\ Len(recommendations) < WorkoutFillLimit
                     THEN Append(recommendations, Head(workouts))
                     ELSE recommendations,
                     Tail(workouts))

\* for disease, workouts in disease_workouts.items()
RECURSIVE ScanDiseases(_, _, _)
ScanDiseases(recommendations, symptom, diseases) ==
    IF diseases = <<>> THEN recommendations
    ELSE ScanDiseases(IF Matches(symptom, Head(diseases))
                      THEN AddWorkouts(recommendations, Take(Head(diseases).workouts, 5))
                      ELSE recommendations,
                      symptom, Tail(diseases))

\* Step 4: for symptom in cleaned_symptoms
RECURSIVE ScanSymptoms(_, _, _)
ScanSymptoms(recommendations, cleaned_symptoms, T) ==
    IF cleaned_symptoms = <<>> THEN recommendations
    ELSE ScanSymptoms(ScanDiseases(recommendations, Head(cleaned_symptoms), T.disease_workouts),
                      Tail(cleaned_symptoms), T)

\* Faulty variant: only a repetition of the string just kept is dropped.
RECURSIVE unique_recs_Adjacent(_)
unique_recs_Adjacent(recommendations) ==
    IF recommendations = <<>> THEN <<>>
    ELSE LET n == Len(recommendations)
             u == unique_recs_Adjacent(SubSeq(recommendations, 1, n - 1))
         IN  IF u # <<>> /\ u[Len(u)] = recommendations[n] THEN u
             ELSE Append(u, recommendations[n])

\* Step 6: keep the first occurrence of each string.
RECURSIVE unique_recs(_)
unique_recs(recommendations) ==
    IF recommendations = <<>> THEN <<>>
    ELSE LET n == Len(recommendations)
             u == unique_recs(SubSeq(recommendations, 1, n - 1))
         IN  IF InSeq(recommendations[n], u) THEN u ELSE Append(u, recommendations[n])

\* s[-n:]
TakeLast(s, n) == SubSeq(s, Max(1, Len(s) - n + 1), Len(s))

\* The list after step 3: the urgency table's entries, the category blocks and
\* the general recommendations.
StepsOneToThree(symptoms, urgency, T, order) ==
    (IF urgency \in DOMAIN T.urgency_recommendations
     THEN T.urgency_recommendations[urgency] ELSE <<>>)
    \o CategoryBlocks(CategoriesFound(CleanAll(symptoms), T, order))
    \o T.general_workouts

\* The list after step 4.
StepsOneToFour(symptoms, urgency, T, order) ==
    ScanSymptoms(StepsOneToThree(symptoms, urgency, T, order), CleanAll(symptoms), T)

\* Faulty variant: the general recommendations come before the category blocks.
AllRecommendations_GeneralFirst(symptoms, urgency, risk_score, T, order) ==
    LET cleaned_symptoms == CleanAll(symptoms)
        step1 == IF urgency \in DOMAIN T.urgency_recommendations
                 THEN T.urgency_recommendations[urgency] ELSE <<>>
        step3 == step1 \o T.general_workouts
        step2 == step3 \o CategoryBlocks(CategoriesFound(cleaned_symptoms, T, order))
        step4 == ScanSymptoms(step2, cleaned_symptoms, T)
    IN  step4 \o RiskBlock(risk_score)

\* The list before step 6: steps 1 to 5.
AllRecommendations(symptoms, urgency, risk_score, T, order) ==
    LET cleaned_symptoms == CleanAll(symptoms)
        step1 == IF urgency \in DOMAIN T.urgency_recommendations
                 THEN T.urgency_recommendations[urgency] ELSE <<>>
        step2 == step1 \o CategoryBlocks(CategoriesFound(cleaned_symptoms, T, order))
        step3 == step2 \o T.general_workouts
        step4 == ScanSymptoms(step3, cleaned_symptoms, T)
    IN  step4 \o RiskBlock(risk_score)

\* Faulty variant: the last 15 entries are returned instead of the first 15.
get_recommendations_Last(symptoms, urgency, risk_score, T, order) ==
    TakeLast(unique_recs(AllRecommendations(symptoms, urgency, risk_score, T, order)),
             MaxRecommendations)

\* Faulty variant: four of the 15 places are kept for the risk-tier block.
get_recommendations_ReserveRiskTier(symptoms, urgency, risk_score, T, order) ==
    Take(unique_recs(
             Take(unique_recs(StepsOneToFour(symptoms, urgency, T, order)),
                  MaxRecommendations - Len(RiskBlock(risk_score)))
             \o RiskBlock(risk_score)),
         MaxRecommendations)

\* unique_recs[:15] of the list of steps 1 to 5.
get_recommendations(symptoms, urgency, risk_score, T, order) ==
    Take(unique_recs(AllRecommendations(symptoms, urgency, risk_score, T, order)),
         MaxRecommendations)

----------------------------------------------------------------------------
(* The /predict handler *)

\* "if age:": None, 0 and "" are falsy.
Truthy(age) ==
    \/ age.kind = "int" /\ age.int # 0
    \/ age.kind = "str" /\ age.str # ""

\* int(age): the number itself, or the value of a string of decimal digits
\* (surrounding whitespace allowed); any other string raises ValueError.
IntOf(age) ==
    IF age.kind = "int"
    THEN [ok |-> TRUE, val |-> age.int, error |-> ""]
    ELSE LET t == Strip(age.str)
         IN  IF Len(t) > 0 /\ \A i \in 1..Len(t) : IsDigit(CharAt(t, i))
             THEN [ok |-> TRUE, val |-> DecimalValue(t), error |-> ""]
             ELSE [ok |-> FALSE, val |-> 0,
                   error |-> "invalid literal for int() with base 10: '" \o age.str \o "'"]

\* jsonify({"error": message}), status
ErrorResponse(status, message) == [status |-> status, error |-> message]

\* The response dict before the optional fields are added.
BaseResponse(symptoms, p, urgency, recommendations, T) ==
    [ status |-> 200,
      risk_score |-> p.risk_score,
      confidence |-> p.confidence,
      urgency |-> urgency,
      recommendations |-> recommendations,
      symptoms_analyzed |-> Len(symptoms),
      analysis |-> [ raw_severity_score |-> p.raw_severity,
                     ml_based_prediction |-> p.ml_severity,
                     rule_based_prediction |-> p.rule_based_score ],
      threshold_info |-> [ emergency_threshold |-> T.emergency_threshold,
                           high_threshold |-> T.high_threshold,
                           moderate_threshold |-> T.moderate_threshold ] ]

\* Faulty variant: the second branch lacks its urgency == "low" test.
AdjustForAge_NoLowTest(resp, urgency) ==
    LET risk == Min(1000, resp.risk_score + 50)
    IN  [resp EXCEPT !.risk_score = risk,
                     !.urgency = IF urgency = "moderate" THEN "high"
                                 ELSE IF risk >= 500 THEN "moderate"
                                 ELSE @]

\* Faulty variant: the low -> moderate test reads the risk score before the 0.5 is added.
AdjustForAge_OldRisk(resp, urgency) ==
    LET risk == Min(1000, resp.risk_score + 50)
    IN  [resp EXCEPT !.risk_score = risk,
                     !.urgency = IF urgency = "moderate" THEN "high"
                                 ELSE IF urgency = "low" /\ resp.risk_score >= 500 THEN "moderate"
                                 ELSE @]

\* Faulty variant: every label moves up one tier, "high" included.
AdjustForAge_Overflow(resp, urgency) ==
    [resp EXCEPT !.risk_score = Min(1000, resp.risk_score + 50),
                 !.urgency = CASE urgency = "low" -> "moderate"
                               [] urgency = "moderate" -> "high"
                               [] OTHER -> "critical"]

\* Faulty variant: the risk score is raised and the label is left as it was.
AdjustForAge_RiskOnly(resp, urgency) ==
    [resp EXCEPT !.risk_score = Min(1000, resp.risk_score + 50)]

\* The block under "if int(age) > 60": urgency is the label computed by
\* determine_urgency_level, not the one already in the response.
AdjustForAge(resp, urgency) ==
    LET risk == Min(1000, resp.risk_score + 50)
    IN  [resp EXCEPT !.risk_score = risk,
                     !.urgency = IF urgency = "moderate" THEN "high"
                                 ELSE IF urgency = "low" /\ risk >= 500 THEN "moderate"
                                 ELSE @]

\* Faulty variant: the adjustment starts at 60.
WithAge_From60(resp, urgency, n) ==
    LET tagged == ("age" :> n) @@ resp
    IN  IF n >= 60 THEN AdjustForAge(tagged, urgency) ELSE tagged

\* The block under "if age:", reached with a truthy age whose int() succeeded.
WithAge(resp, urgency, n) ==
    LET tagged == ("age" :> n) @@ resp
    IN  IF n > 60 THEN AdjustForAge(tagged, urgency) ELSE tagged

\* Faulty variant: the recommendations are assembled after the age block, from
\* the urgency and the risk score it left in the response.
Score_RecommendAfterAge(req, T, o, order) ==
    LET p == predict_severity_and_urgency(req.symptoms, T, o)
        urgency == determine_urgency_level(p.raw_severity, p.risk_score, req.symptoms, T)
        resp == BaseResponse(req.symptoms, p, urgency, <<>>, T)
        n == IntOf(req.age)
        adjusted == IF Truthy(req.age) /\ n.ok THEN WithAge(resp, urgency, n.val) ELSE resp
    IN  [ prediction |-> p,
          calls |-> ModelCalls(req.symptoms, T, o),
          response |-> IF Truthy(req.age) /\ ~n.ok THEN ErrorResponse(500, n.error)
                       ELSE [adjusted EXCEPT !.recommendations =
                                get_recommendations(req.symptoms, adjusted.urgency,
                                                    adjusted.risk_score, T, order)] ]

\* Faulty variant: a failed int(age) adds the error to the response built so far.
Score_PartialOnError(req, T, o, order) ==
    LET p == predict_severity_and_urgency(req.symptoms, T, o)
        urgency == determine_urgency_level(p.raw_severity, p.risk_score, req.symptoms, T)
        recommendations == get_recommendations(req.symptoms, urgency, p.risk_score, T, order)
        resp == BaseResponse(req.symptoms, p, urgency, recommendations, T)
        n == IntOf(req.age)
    IN  [ prediction |-> p,
          calls |-> ModelCalls(req.symptoms, T, o),
          response |-> IF ~Truthy(req.age) THEN resp
                       ELSE IF ~n.ok THEN ("error" :> n.error) @@ [resp EXCEPT !.status = 500]
                       ELSE WithAge(resp, urgency, n.val) ]

\* The body of predict() from the scoring on, for a validated symptom list.
Score(req, T, o, order) ==
    LET p == predict_severity_and_urgency(req.symptoms, T, o)
        urgency == determine_urgency_level(p.raw_severity, p.risk_score, req.symptoms, T)
        recommendations == get_recommendations(req.symptoms, urgency, p.risk_score, T, order)
        resp == BaseResponse(req.symptoms, p, urgency, recommendations, T)
        n == IntOf(req.age)
    IN  [ prediction |-> p,
          calls |-> ModelCalls(req.symptoms, T, o),
          response |-> IF ~Truthy(req.age) THEN resp
                       ELSE IF ~n.ok THEN ErrorResponse(500, n.error)
                       ELSE WithAge(resp, urgency, n.val) ]

Nothing == [nothing |-> TRUE]

\* Faulty variant: an empty symptom list is answered with the zero result.
HandlePredict_EmptyOk(req, T, o, order) ==
    IF req.json \in {"none", "empty"} \/ ~req.has_symptoms
    THEN [prediction |-> Nothing, calls |-> <<>>,
          response |-> ErrorResponse(400, "No symptoms provided")]
    ELSE IF ~req.symptoms_is_list
    THEN [prediction |-> Nothing, calls |-> <<>>,
          response |-> ErrorResponse(400, "Symptoms must be a list")]
    ELSE IF Len(req.symptoms) = 0
    THEN [prediction |-> predict_severity_and_urgency(req.symptoms, T, o), calls |-> <<>>,
          response |-> [status |-> 200, risk_score |-> 0, urgency |-> "low",
                        recommendations |-> <<>>]]
    ELSE Score(req, T, o, order)

\* predict(): validation, then scoring.
HandlePredict(req, T, o, order) ==
    IF req.json \in {"none", "empty"} \/ ~req.has_symptoms
    THEN [prediction |-> Nothing, calls |-> <<>>,
          response |-> ErrorResponse(400, "No symptoms provided")]
    ELSE IF ~req.symptoms_is_list
    THEN [prediction |-> Nothing, calls |-> <<>>,
          response |-> ErrorResponse(400, "Symptoms must be a list")]
    ELSE IF Len(req.symptoms) = 0
    THEN [prediction |-> Nothing, calls |-> <<>>,
          response |-> ErrorResponse(400, "Symptoms list cannot be empty")]
    ELSE Score(req, T, o, order)

----------------------------------------------------------------------------
(* The state machine *)

Init ==
    /\ model_data \in Packages
    /\ hash_order \in CategoryOrders
    /\ pc = "idle"
    /\ request = Nothing
    /\ ml = Nothing
    /\ calls = <<>>
    /\ prediction = Nothing
    /\ response = Nothing
    /\ threads = Nothing
    /\ call = Nothing

\* POST /predict
predict(req, o) ==
    /\ pc = "idle"
    /\ LET r == HandlePredict(req, model_data, o, hash_order)
       IN  /\ request' = req
           /\ ml' = IF r.response.status = 400 THEN Nothing ELSE o
           /\ calls' = r.calls
           /\ prediction' = r.prediction
           /\ response' = r.response
    /\ pc' = "done"
    /\ UNCHANGED <<model_data, hash_order, threads, call>>

\* GET /symptoms
list_symptoms ==
    /\ pc = "idle"
    /\ request' = [route |-> "/symptoms"]
    /\ response' =
          [ status |-> 200,
            symptoms |-> [i \in 1..Len(model_data.symptoms) |->
                             [ symptom |-> model_data.symptoms[i],
                               weight |-> IF model_data.symptoms[i] \in DOMAIN model_data.symptom_weights
                                          THEN model_data.symptom_weights[model_data.symptoms[i]]
                                          ELSE 0 ]],
            count |-> Len(model_data.symptoms) ]
    /\ ml' = Nothing /\ calls' = <<>> /\ prediction' = Nothing
    /\ pc' = "done"
    /\ UNCHANGED <<model_data, hash_order, threads, call>>

\* GET /info
model_info ==
    /\ pc = "idle"
    /\ request' = [route |-> "/info"]
    /\ response' =
          [ status |-> 200,
            symptoms_count |-> Len(model_data.symptoms),
            max_risk_score |-> 1000,
            min_risk_score |-> 0,
            thresholds |-> [ emergency |-> model_data.emergency_threshold,
                             high |-> model_data.high_threshold,
                             moderate |-> model_data.moderate_threshold ] ]
    /\ ml' = Nothing /\ calls' = <<>> /\ prediction' = Nothing
    /\ pc' = "done"
    /\ UNCHANGED <<model_data, hash_order, threads, call>>

\* The response is sent; the service waits for the next request.  Nothing of
\* the request outlives it.
Respond ==
    /\ pc = "done"
    /\ pc' = "idle"
    /\ request' = Nothing
    /\ ml' = Nothing
    /\ calls' = <<>>
    /\ prediction' = Nothing
    /\ response' = Nothing
    /\ UNCHANGED <<model_data, hash_order, threads, call>>

Next ==
    \/ pc = "idle" /\ \E req \in Requests, o \in MLOutcomes : predict(req, o)
    \/ list_symptoms
    \/ model_info
    \/ Respond

Spec == Init /\ [][Next]_vars

----------------------------------------------------------------------------
(* /predict served by several worker threads of one process *)

\* The worker threads of the server.
NumThreads == 2

Threads == 1..NumThreads

\* The locals of predict() in a thread that serves no request.
IdleThread ==
    [ pc |-> "idle", request |-> Nothing, ml |-> Nothing, prediction |-> Nothing,
      urgency |-> "", recommendations |-> <<>>, response |-> Nothing ]

\* Requests and model outcomes of the parallel clients.
ConcurrentRequests ==
    { [json |-> "object", has_symptoms |-> TRUE, symptoms_is_list |-> TRUE,
       symptoms |-> <<"cough">>, age |-> Absent],
      [json |-> "object", has_symptoms |-> TRUE, symptoms_is_list |-> TRUE,
       symptoms |-> <<" Chest Pain.">>, age |-> IntAge(65)],
      [json |-> "object", has_symptoms |-> TRUE, symptoms_is_list |-> TRUE,
       symptoms |-> <<"migraine", "Vomiting">>, age |-> StrAge("61")],
      [json |-> "object", has_symptoms |-> TRUE, symptoms_is_list |-> TRUE,
       symptoms |-> <<>>, age |-> Absent] }

ConcurrentOutcomes ==
    { [fail |-> "none", severity |-> 641,
       urgency |-> [urgency_pred |-> 1, proba |-> <<617, 8766, 617>>]],
      [fail |-> "severity", severity |-> 641,
       urgency |-> [urgency_pred |-> 1, proba |-> <<617, 8766, 617>>]] }

\* The validation of predict(): the 400 response, or Nothing for a request that
\* goes on to scoring.
Validate(req) ==
    IF req.json \in {"none", "empty"} \/ ~req.has_symptoms
    THEN ErrorResponse(400, "No symptoms provided")
    ELSE IF ~req.symptoms_is_list
    THEN ErrorResponse(400, "Symptoms must be a list")
    ELSE IF Len(req.symptoms) = 0
    THEN ErrorResponse(400, "Symptoms list cannot be empty")
    ELSE Nothing

\* The end of predict(): the response dict, the optional age block, or the 500
\* of the except clause.
Answer(req, p, urgency, recommendations, T) ==
    LET resp == BaseResponse(req.symptoms, p, urgency, recommendations, T)
        n == IntOf(req.age)
    IN  IF ~Truthy(req.age) THEN resp
        ELSE IF ~n.ok THEN ErrorResponse(500, n.error)
        ELSE WithAge(resp, urgency, n.val)

\* Faulty variant: the weight of a symptom is taken out of the table when it is
\* looked up (symptom_weights.pop(s, 0) for symptom_weights.get(s, 0)).
tables_after_scoring_Pop(symptoms, T) ==
    LET cleaned_symptoms == CleanAll(symptoms)
        used == {cleaned_symptoms[i] : i \in 1..Len(cleaned_symptoms)}
    IN  [T EXCEPT !.symptom_weights =
            [k \in (DOMAIN T.symptom_weights) \ used |-> T.symptom_weights[k]]]

\* The module-level tables after predict_severity_and_urgency(symptoms) has
\* run: symptoms_list and symptom_weights are only read ("in", ".get"), and
\* MAX_REALISTIC_SCORE is only compared and divided by.
tables_after_scoring(symptoms, T) == T

\* Faulty variant: the list being built is the table's own list
\* (recommendations = urgency_recommendations.get(urgency, [])), so that what
\* is appended to it is appended to the table.
tables_after_recommendations_Aliased(symptoms, urgency, risk_score, T, order) ==
    IF urgency \in DOMAIN T.urgency_recommendations
    THEN [T EXCEPT !.urgency_recommendations[urgency] =
                      AllRecommendations(symptoms, urgency, risk_score, T, order)]
    ELSE T

\* The module-level tables after get_recommendations has run: recommendations
\* is a new list, extend() copies the entries of urgency_recommendations and
\* general_workouts into it, and symptom_to_category and disease_workouts are
\* only read.
tables_after_recommendations(symptoms, urgency, risk_score, T, order) == T

\* The steps of predict() in thread t, each reading the tables as they are when
\* the step runs.

\* request.get_json() and the validation.
predict_validate(t, req, o) ==
    /\ threads[t].pc = "idle"
    /\ threads' =
          [threads EXCEPT ![t] =
              IF Validate(req) # Nothing
              THEN [IdleThread EXCEPT !.pc = "done", !.request = req,
                                      !.response = Validate(req)]
              ELSE [IdleThread EXCEPT !.pc = "scoring", !.request = req, !.ml = o]]
    /\ UNCHANGED <<model_data, hash_order, pc, request, ml, calls, prediction, response, call>>

\* prediction = predict_severity_and_urgency(symptoms)
predict_score(t) ==
    /\ threads[t].pc = "scoring"
    /\ threads' =
          [threads EXCEPT ![t].pc = "classifying",
                          ![t].prediction =
                              predict_severity_and_urgency(threads[t].request.symptoms,
                                                           model_data, threads[t].ml)]
    /\ model_data' = tables_after_scoring(threads[t].request.symptoms, model_data)
    /\ UNCHANGED <<hash_order, pc, request, ml, calls, prediction, response, call>>

\* urgency = determine_urgency_level(...)
predict_classify(t) ==
    /\ threads[t].pc = "classifying"
    /\ threads' =
          [threads EXCEPT ![t].pc = "recommending",
                          ![t].urgency =
                              determine_urgency_level(threads[t].prediction.raw_severity,
                                                      threads[t].prediction.risk_score,
                                                      threads[t].request.symptoms, model_data)]
    /\ UNCHANGED <<model_data, hash_order, pc, request, ml, calls, prediction, response, call>>

\* recommendations = get_recommendations(...)
predict_recommend(t) ==
    /\ threads[t].pc = "recommending"
    /\ threads' =
          [threads EXCEPT ![t].pc = "answering",
                          ![t].recommendations =
                              get_recommendations(threads[t].request.symptoms,
                                                  threads[t].urgency,
                                                  threads[t].prediction.risk_score,
                                                  model_data, hash_order)]
    /\ model_data' = tables_after_recommendations(threads[t].request.symptoms,
                                                  threads[t].urgency,
                                                  threads[t].prediction.risk_score,
                                                  model_data, hash_order)
    /\ UNCHANGED <<hash_order, pc, request, ml, calls, prediction, response, call>>

\* The response dict and the optional fields.
predict_answer(t) ==
    /\ threads[t].pc = "answering"
    /\ threads' =
          [threads EXCEPT ![t].pc = "done",
                          ![t].response =
                              Answer(threads[t].request, threads[t].prediction,
                                     threads[t].urgency, threads[t].recommendations,
                                     model_data)]
    /\ UNCHANGED <<model_data, hash_order, pc, request, ml, calls, prediction, response, call>>

\* return jsonify(...): the thread is free for the next request.
predict_return(t) ==
    /\ threads[t].pc = "done"
    /\ threads' = [threads EXCEPT ![t] = IdleThread]
    /\ UNCHANGED <<model_data, hash_order, pc, request, ml, calls, prediction, response, call>>

InitConcurrent ==
    /\ model_data \in Packages
    /\ hash_order \in CategoryOrders
    /\ pc = "idle"
    /\ request = Nothing
    /\ ml = Nothing
    /\ calls = <<>>
    /\ prediction = Nothing
    /\ response = Nothing
    /\ threads = [t \in Threads |-> IdleThread]
    /\ call = Nothing

NextConcurrent ==
    \/ \E t \in Threads, req \in ConcurrentRequests, o \in ConcurrentOutcomes :
          predict_validate(t, req, o)
    \/ \E t \in Threads : predict_score(t)
    \/ \E t \in Threads : predict_classify(t)
    \/ \E t \in Threads : predict_recommend(t)
    \/ \E t \in Threads : predict_answer(t)
    \/ \E t \in Threads : predict_return(t)

SpecConcurrent == InitConcurrent /\ [][NextConcurrent]_vars

----------------------------------------------------------------------------
(* determine_urgency_level called on its own *)

\* (EMERGENCY_THRESHOLD, HIGH_THRESHOLD) of loaded packages: the registered
\* pair, equal thresholds, and a package whose HIGH is above its EMERGENCY.
ThresholdPairs == {<<70, 42>>, <<42, 42>>, <<30, 60>>}

ThresholdPackages ==
    {[TrainedPackage EXCEPT !.emergency_threshold = p[1], !.high_threshold = p[2]] :
        p \in ThresholdPairs}

\* Raw severities (weight sums) and risk scores (hundredths) around the cutoffs.
RawSeverities == {0, 29, 30, 41, 42, 43, 59, 60, 69, 70, 75}
RiskScores == {0, 490, 500, 510, 790, 800, 1000}

InitUrgency ==
    /\ model_data \in ThresholdPackages
    /\ hash_order \in {<<"respiratory", "gastrointestinal", "neurological",
                          "emergency", "musculoskeletal">>}
    /\ pc = "idle"
    /\ request = Nothing
    /\ ml = Nothing
    /\ calls = <<>>
    /\ prediction = Nothing
    /\ response = Nothing
    /\ threads = Nothing
    /\ call \in [ fn : {"determine_urgency_level"},
                   raw_severity : RawSeverities,
                   risk_score : RiskScores,
                   symptoms : SeqsUpTo(SymptomPool, MaxSymptoms),
                   returned : {FALSE},
                   result : {""} ]

call_determine_urgency_level ==
    /\ ~call.returned
    /\ call' = [call EXCEPT !.returned = TRUE,
                            !.result = determine_urgency_level(call.raw_severity, call.risk_score,
                                                               call.symptoms, model_data)]
    /\ UNCHANGED <<model_data, hash_order, pc, request, ml, calls, prediction, response, threads>>

NextUrgency == call_determine_urgency_level

SpecUrgency == InitUrgency /\ [][NextUrgency]_vars

----------------------------------------------------------------------------
(* clean_symptom_name called on its own *)

\* Characters of a symptom string: the ones the function treats specially
\* (whitespace, period, hyphen, upper case) and ordinary ones.
NameAlphabet == {" ", "\t", "\n", ".", "-", "_", "A", "b"}

RECURSIVE StringsOfLen(_)
StringsOfLen(n) ==
    IF n = 0 THEN {""}
    ELSE {c \o t : c \in NameAlphabet, t \in StringsOfLen(n - 1)}

NameInputs == UNION {StringsOfLen(k) : k \in 0..MaxNameLen}

InitNormalizer ==
    /\ model_data = TrainedPackage
    /\ hash_order \in CategoryOrders
    /\ pc = "idle"
    /\ request = Nothing
    /\ ml = Nothing
    /\ calls = <<>>
    /\ prediction = Nothing
    /\ response = Nothing
    /\ threads = Nothing
    /\ call \in [ fn : {"clean_symptom_name"}, symptom : NameInputs,
                   returned : {FALSE}, result : {""}, again : {""} ]

\* clean_symptom_name(symptom), and clean_symptom_name of what it returned.
call_clean_symptom_name ==
    /\ ~call.returned
    /\ call' = [call EXCEPT !.returned = TRUE,
                            !.result = clean_symptom_name(call.symptom),
                            !.again = clean_symptom_name(clean_symptom_name(call.symptom))]
    /\ UNCHANGED <<model_data, hash_order, pc, request, ml, calls, prediction, response, threads>>

NextNormalizer == call_clean_symptom_name

SpecNormalizer == InitNormalizer /\ [][NextNormalizer]_vars

----------------------------------------------------------------------------
(* get_recommendations called on its own *)

\* Urgency labels given to get_recommendations: the three of
\* determine_urgency_level and one the urgency table has no entry for.
UrgencyArguments == {"low", "moderate", "high", "critical"}

InitRecommendations ==
    /\ model_data \in Packages
    /\ hash_order \in CategoryOrders
    /\ pc = "idle"
    /\ request = Nothing
    /\ ml = Nothing
    /\ calls = <<>>
    /\ prediction = Nothing
    /\ response = Nothing
    /\ threads = Nothing
    /\ call \in [ fn : {"get_recommendations"},
                   symptoms : SeqsUpTo(SymptomPool, MaxSymptoms),
                   urgency : UrgencyArguments,
                   risk_score : RiskScores,
                   returned : {FALSE},
                   after_step3 : {<<>>}, after_step4 : {<<>>}, after_step5 : {<<>>},
                   result : {<<>>} ]

\* get_recommendations(symptoms, urgency, risk_score): the list as it is after
\* step 3, after step 4 and after step 5, and the list returned.
call_get_recommendations ==
    /\ ~call.returned
    /\ call' = [call EXCEPT
                   !.returned = TRUE,
                   !.after_step3 = StepsOneToThree(call.symptoms, call.urgency,
                                                   model_data, hash_order),
                   !.after_step4 = StepsOneToFour(call.symptoms, call.urgency,
                                                  model_data, hash_order),
                   !.after_step5 = AllRecommendations(call.symptoms, call.urgency,
                                                      call.risk_score, model_data, hash_order),
                   !.result = get_recommendations(call.symptoms, call.urgency, call.risk_score,
                                                  model_data, hash_order)]
    /\ UNCHANGED <<model_data, hash_order, pc, request, ml, calls, prediction, response, threads>>

NextRecommendations == call_get_recommendations

SpecRecommendations == InitRecommendations /\ [][NextRecommendations]_vars

----------------------------------------------------------------------------
(* The scoring functions called on their own *)

\* Loaded packages that differ in MAX_REALISTIC_SCORE too.
ScoringPackages ==
    Packages \cup {[OtherPackage EXCEPT !.max_realistic_score = 30], CsvPackage}

InitScoring ==
    /\ model_data \in ScoringPackages
    /\ hash_order \in {<<"respiratory", "gastrointestinal", "neurological",
                          "emergency", "musculoskeletal">>}
    /\ pc = "idle"
    /\ request = Nothing
    /\ ml = Nothing
    /\ calls = <<>>
    /\ prediction = Nothing
    /\ response = Nothing
    /\ threads = Nothing
    /\ call \in
          [ fn : {"predict_severity_and_urgency"},
            symptoms : SeqsUpTo(SymptomPool, MaxSymptoms), ml : MLOutcomes,
            returned : {FALSE}, model_calls : {<<>>}, result : {Nothing} ]
          \cup
          [ fn : {"calculate_risk_score"}, raw_severity : 0..MaxRawSeverity,
            returned : {FALSE}, result : {0} ]
          \cup
          [ fn : {"create_feature_vector"}, symptoms : SeqsUpTo(SymptomPool, MaxSymptoms),
            returned : {FALSE}, result : {<<>>} ]

\* predict_severity_and_urgency(symptoms), with the model invocations it made.
call_predict_severity_and_urgency ==
    /\ call.fn = "predict_severity_and_urgency" /\ ~call.returned
    /\ call' = [call EXCEPT
                   !.returned = TRUE,
                   !.model_calls = ModelCalls(call.symptoms, model_data, call.ml),
                   !.result = predict_severity_and_urgency(call.symptoms, model_data, call.ml)]
    /\ UNCHANGED <<model_data, hash_order, pc, request, ml, calls, prediction, response, threads>>

\* calculate_risk_score(raw_severity), ml_severity left at None.
call_calculate_risk_score ==
    /\ call.fn = "calculate_risk_score" /\ ~call.returned
    /\ call' = [call EXCEPT
                   !.returned = TRUE,
                   !.result = calculate_risk_score(call.raw_severity, <<>>, model_data)]
    /\ UNCHANGED <<model_data, hash_order, pc, request, ml, calls, prediction, response, threads>>

\* create_feature_vector(symptoms)
call_create_feature_vector ==
    /\ call.fn = "create_feature_vector" /\ ~call.returned
    /\ call' = [call EXCEPT
                   !.returned = TRUE,
                   !.result = create_feature_vector(call.symptoms, model_data)]
    /\ UNCHANGED <<model_data, hash_order, pc, request, ml, calls, prediction, response, threads>>

NextScoring ==
    \/ call_predict_severity_and_urgency
    \/ call_calculate_risk_score
    \/ call_create_feature_vector

SpecScoring == InitScoring /\ [][NextScoring]_vars

----------------------------------------------------------------------------
(* Properties *)

\* A /predict request has been answered.
Answered == pc = "done" /\ "json" \in DOMAIN request

\* ... with success.
Succeeded == Answered /\ response.status = 200

\* The request passed validation: a non-empty symptom list.
Validated ==
    /\ Answered
    /\ request.json = "object" /\ request.has_symptoms /\ request.symptoms_is_list
    /\ request.symptoms # <<>>

Rank(urgency) == CASE urgency = "low" -> 0 [] urgency = "moderate" -> 1 [] urgency = "high" -> 2

\* The label determine_urgency_level gave this request, before any age adjustment.
UrgencyBeforeAge ==
    determine_urgency_level(prediction.raw_severity, prediction.risk_score,
                            request.symptoms, model_data)

\* The response to the same request sent without an age.
ResponseWithoutAge ==
    HandlePredict([request EXCEPT !.age = Absent], model_data, ml, hash_order).response

EmergencySet ==
    {"chest_pain", "severe_chest_pain", "shortness_of_breath", "difficulty_breathing",
     "passing_out", "coma", "stroke", "heart_attack", "severe_bleeding", "severe_head_injury"}

\* The symptom list has an entry that normalizes to a member of the emergency set.
EmergencyRequest ==
    /\ Validated
    /\ \E i \in 1..Len(request.symptoms) : CleanAll(request.symptoms)[i] \in EmergencySet

\* C1: a request with a symptom that normalizes into the emergency set gets
\* urgency "high" in its response, whatever the other symptoms, the raw
\* severity, the risk score, the outcome of the models and the age.
C1_EmergencyForcesHigh ==
    (EmergencyRequest /\ "urgency" \in DOMAIN response) => response.urgency = "high"

\* C1 witness: the override alone decides: the models failed, an age is given,
\* and neither the raw severity nor the risk score reaches a threshold.
C1_Witness ==
    /\ EmergencyRequest /\ Succeeded
    /\ ml.fail # "none"
    /\ "age" \in DOMAIN response
    /\ prediction.raw_severity < model_data.high_threshold
    /\ prediction.risk_score < 500
    /\ response.urgency = "high"

\* C2: the risk_score of a successful response lies in [0, 10], on the model
\* path and the fallback path, for model outputs outside [0, 10] too, and after
\* the age adjustment.
C2_RiskScoreBounded ==
    Succeeded =>
        /\ 0 <= prediction.risk_score /\ prediction.risk_score <= 1000
        /\ 0 <= response.risk_score /\ response.risk_score <= 1000

\* C2 witness: the model output is above 10, the score before the adjustment is
\* above 9.5, and the adjusted score is 10.
C2_Witness ==
    /\ Succeeded
    /\ ml.fail = "none" /\ ml.severity > 1000
    /\ "age" \in DOMAIN response /\ response.age > 60
    /\ prediction.risk_score > 950
    /\ response.risk_score = 1000

\* C3: the urgency of a successful response is one of "low", "moderate",
\* "high", before and after the age adjustment.
C3_UrgencyLabel ==
    Succeeded =>
        /\ UrgencyBeforeAge \in {"low", "moderate", "high"}
        /\ response.urgency \in {"low", "moderate", "high"}

\* C3 witness: the age adjustment changed the label.
C3_Witness ==
    /\ Succeeded
    /\ "age" \in DOMAIN response /\ response.age > 60
    /\ response.urgency # UrgencyBeforeAge

\* C4: the confidence of a successful response lies in [0, 100]; on the model
\* path it is the largest class probability times 100 rounded to one decimal
\* (a multiple of 0.1 within 0.05 of one probability and not more than 0.05
\* below any), on the fallback path it is 75.0.
C4_Confidence ==
    Succeeded =>
        /\ 0 <= response.confidence /\ response.confidence <= 10000
        /\ ml.fail = "none" =>
              /\ response.confidence % 10 = 0
              /\ \E i \in 1..Len(ml.urgency.proba) :
                    /\ response.confidence - ml.urgency.proba[i] <= 5
                    /\ ml.urgency.proba[i] - response.confidence <= 5
              /\ \A i \in 1..Len(ml.urgency.proba) :
                    ml.urgency.proba[i] - response.confidence <= 5
        /\ ml.fail # "none" => response.confidence = 7500

\* C4 witness: the largest probability, 0.8766, is not the first and is rounded
\* to 87.7.
C4_Witness ==
    /\ Succeeded
    /\ ml.fail = "none"
    /\ ml.urgency.proba[1] < ml.urgency.proba[2]
    /\ response.confidence = 8770

\* C5: when a step of the model path raises for a non-empty symptom list,
\* predict_severity_and_urgency returns riskScore = ruleBasedScore, mlSeverity =
\* ruleBasedScore and confidence = 75.0, ruleBasedScore being the raw severity
\* scaled to 0-10 (10.0 above MAX_REALISTIC_SCORE) and rounded to one decimal,
\* and /predict answers with success: the only failure left is the conversion
\* of an age that is not a number, which no model failure causes.
C5_FallbackIsTotal ==
    (Validated /\ ml.fail # "none") =>
        /\ prediction.risk_score = prediction.rule_based_score
        /\ prediction.ml_severity = prediction.rule_based_score
        /\ prediction.confidence = 7500
        /\ prediction.rule_based_score % 10 = 0
        /\ IF prediction.raw_severity > model_data.max_realistic_score
           THEN prediction.rule_based_score = 1000
           ELSE LET exact == 1000 * prediction.raw_severity
                    got == prediction.rule_based_score * model_data.max_realistic_score
                IN  /\ got - exact <= 5 * model_data.max_realistic_score
                    /\ exact - got <= 5 * model_data.max_realistic_score
        /\ response.status # 200 =>
              /\ response.status = 500
              /\ request.age = StrAge("sixty")
        /\ response.status = 200 =>
              /\ response.confidence = 7500
              /\ response.analysis.ml_based_prediction = prediction.rule_based_score
              /\ response.analysis.rule_based_prediction = prediction.rule_based_score

\* C5 witness: urgency_model.predict raised after the severity model had
\* answered; the response is a success with the fallback values.
C5_Witness ==
    /\ Validated /\ Succeeded
    /\ ml.fail = "urgency"
    /\ Len(calls) = 2
    /\ prediction.rule_based_score > 0
    /\ response.confidence = 7500
    /\ response.risk_score = prediction.rule_based_score

C7_AgeNeverLowers ==
    Succeeded =>
        /\ ResponseWithoutAge.status = 200
        /\ response.risk_score >= ResponseWithoutAge.risk_score
        /\ Rank(response.urgency) >= Rank(ResponseWithoutAge.urgency)

\* C7 witness: an age above 60 raised both the risk score and the urgency.
C7_Witness ==
    /\ Succeeded
    /\ "age" \in DOMAIN response /\ response.age > 60
    /\ response.risk_score > ResponseWithoutAge.risk_score
    /\ Rank(response.urgency) > Rank(ResponseWithoutAge.urgency)

\* C8 as stated: with an age above 60 the urgency is exactly one tier above the
\* urgency of the same request without age, unless that one is "high".
C8_AlwaysOneTierUp ==
    ( /\ Succeeded
      /\ "age" \in DOMAIN response /\ response.age > 60
      /\ ResponseWithoutAge.urgency # "high" ) =>
        Rank(response.urgency) = Rank(ResponseWithoutAge.urgency) + 1

\* C8 amended: with an age above 60, "moderate" becomes "high"; "low" becomes
\* "moderate" when the risk score without age is at least 4.5 (so that the
\* adjusted score reaches 5) and stays "low" below that; "high" stays "high".
C8_OneTierUpWhenRiskAllows ==
    (Succeeded /\ "age" \in DOMAIN response /\ response.age > 60) =>
        LET base == ResponseWithoutAge
        IN  /\ base.urgency = "high" => response.urgency = "high"
            /\ base.urgency = "moderate" => response.urgency = "high"
            /\ (base.urgency = "low" /\ base.risk_score >= 450) => response.urgency = "moderate"
            /\ (base.urgency = "low" /\ base.risk_score < 450) => response.urgency = "low"

\* C8 witness: a "low" request with risk score 4.5 or more is answered
\* "moderate" at age above 60.
C8_Witness ==
    /\ Succeeded
    /\ "age" \in DOMAIN response /\ response.age > 60
    /\ ResponseWithoutAge.urgency = "low"
    /\ response.urgency = "moderate"

\* C9: the recommendation list has at most 15 entries and no string twice, for
\* every symptom list, urgency, risk score and table content.
C9_RecommendationsCappedAndUnique ==
    Succeeded =>
        /\ Len(response.recommendations) <= 15
        /\ \A i, j \in 1..Len(response.recommendations) :
              i < j => response.recommendations[i] # response.recommendations[j]

\* C9 witness: steps 1 to 5 gave more than 15 strings with a repeated one, and
\* 15 are returned.
C9_Witness ==
    /\ Succeeded
    /\ LET all == AllRecommendations(request.symptoms, UrgencyBeforeAge,
                                     prediction.risk_score, model_data, hash_order)
       IN  /\ Len(all) > 15
           /\ \E i, j \in 1..Len(all) : i < j /\ all[i] = all[j]
    /\ Len(response.recommendations) = 15

\* The entries of the high-urgency table and of the risk >= 8 block.
EmergencyTierStrings ==
    {model_data.urgency_recommendations["high"][k] :
        k \in 1..Len(model_data.urgency_recommendations["high"])}
    \cup {"(!) DO NOT DELAY - Seek emergency care immediately",
          "Have someone drive you to the hospital",
          "Keep your phone charged and nearby",
          "Inform someone of your situation"}

\* C10: when the emergency-symptom override fires, the response has urgency
\* "high" and its recommendations include at least one emergency-tier string.
C10_EmergencyRecommendation ==
    (EmergencyRequest /\ Succeeded) =>
        /\ response.urgency = "high"
        /\ \E i \in 1..Len(response.recommendations) :
              response.recommendations[i] \in EmergencyTierStrings

\* C10 witness: the risk score is below 8 (no emergency block), the list was
\* cut to 15, and it starts with the first entry of the high-urgency table.
C10_Witness ==
    /\ EmergencyRequest /\ Succeeded
    /\ prediction.risk_score < 800
    /\ Len(AllRecommendations(request.symptoms, UrgencyBeforeAge,
                              prediction.risk_score, model_data, hash_order)) > 15
    /\ response.recommendations[1] = model_data.urgency_recommendations["high"][1]

\* The age of the request is a non-empty string that is not a decimal number.
UnconvertibleAge ==
    /\ request.age.kind = "str"
    /\ request.age.str # ""
    /\ \E i \in 1..Len(request.age.str) :
          ~IsDigit(CharAt(request.age.str, i)) /\ ~IsSpace(CharAt(request.age.str, i))

\* C11: a validated request whose age is truthy and cannot be converted to an
\* integer is answered 500 with the error description and nothing else (no
\* risk_score, urgency, recommendations or any other field), whether the models
\* answered or failed; and no other validated request is answered 500.
C11_FaultGivesBareError ==
    Validated =>
        /\ UnconvertibleAge =>
              /\ response.status = 500
              /\ DOMAIN response = {"status", "error"}
              /\ response.error =
                    "invalid literal for int() with base 10: '" \o request.age.str \o "'"
        /\ ~UnconvertibleAge => response.status = 200

\* C11 witness: the three model calls succeeded and a risk score above 0 was
\* computed, then int("sixty") raised: the response is the bare error.
C11_Witness ==
    /\ Validated /\ UnconvertibleAge
    /\ ml.fail = "none" /\ Len(calls) = 3
    /\ prediction.risk_score > 0
    /\ response.status = 500
    /\ "risk_score" \notin DOMAIN response

\* Thread t has finished a /predict request and holds its response.
Served(t) == threads[t].pc = "done"

\* The response the request of thread t gets when it is the only one served.
ServedAlone(t) ==
    HandlePredict(threads[t].request, model_data, threads[t].ml, hash_order).response

UrgencyReturned == call.fn = "determine_urgency_level" /\ call.returned

\* C14: with HIGH_THRESHOLD <= EMERGENCY_THRESHOLD, the label returned for
\* (raw severity, risk score, symptoms) is not above (low < moderate < high) the
\* label returned when the raw severity is larger, when the risk score is
\* larger, or when a symptom is added to the list, the rest being the same.
C14_UrgencyMonotonic ==
    (UrgencyReturned /\ model_data.high_threshold <= model_data.emergency_threshold) =>
        /\ \A raw \in RawSeverities :
              raw >= call.raw_severity =>
                 Rank(determine_urgency_level(raw, call.risk_score, call.symptoms, model_data))
                    >= Rank(call.result)
        /\ \A risk \in RiskScores :
              risk >= call.risk_score =>
                 Rank(determine_urgency_level(call.raw_severity, risk, call.symptoms, model_data))
                    >= Rank(call.result)
        /\ \A s \in SymptomPool :
              /\ Rank(determine_urgency_level(call.raw_severity, call.risk_score,
                                              Append(call.symptoms, s), model_data))
                    >= Rank(call.result)
              /\ Rank(determine_urgency_level(call.raw_severity, call.risk_score,
                                              <<s>> \o call.symptoms, model_data))
                    >= Rank(call.result)

\* C14 witness: "moderate" is returned on the raw severity alone, and both a
\* larger raw severity and a larger risk score give "high".
C14_Witness ==
    /\ UrgencyReturned
    /\ model_data.high_threshold < model_data.emergency_threshold
    /\ call.result = "moderate"
    /\ call.risk_score < 500
    /\ \E raw \in RawSeverities :
          /\ raw > call.raw_severity
          /\ determine_urgency_level(raw, call.risk_score, call.symptoms, model_data) = "high"
    /\ \E risk \in RiskScores :
          /\ risk > call.risk_score
          /\ determine_urgency_level(call.raw_severity, risk, call.symptoms, model_data) = "high"

C15_NormalizerIdempotent ==
    (call.fn = "clean_symptom_name" /\ call.returned) => call.again = call.result

\* The request carries an age whose integer value is above 60.
AgeOver60 ==
    \/ request.age.kind = "int" /\ request.age.int > 60
    \/ request.age.kind = "str" /\ IntOf(request.age).ok /\ IntOf(request.age).val > 60

\* C17: against the response to the same request without age, a successful
\* response to a request with an age above 60 has risk_score min(10, risk + 0.5)
\* and urgency moderate -> high, low -> moderate if the new risk_score is at
\* least 5 and low otherwise, high -> high; a successful response to a request
\* with no age or an age of at most 60 has the same risk_score and urgency.
C17_AgeAdjustment ==
    Succeeded =>
        LET base == ResponseWithoutAge
            risk == Min(1000, base.risk_score + 50)
        IN  IF AgeOver60
            THEN /\ response.risk_score = risk
                 /\ base.urgency = "high" => response.urgency = "high"
                 /\ base.urgency = "moderate" => response.urgency = "high"
                 /\ base.urgency = "low" =>
                       response.urgency = IF risk >= 500 THEN "moderate" ELSE "low"
            ELSE /\ response.risk_score = base.risk_score
                 /\ response.urgency = base.urgency

\* C17 witness: the age is exactly 60 and the urgency is "moderate": nothing is
\* adjusted, although the age is reported in the response.
C17_Witness ==
    /\ Succeeded
    /\ request.age = IntAge(60)
    /\ response.age = 60
    /\ response.urgency = "moderate"
    /\ response.risk_score = prediction.risk_score
    /\ response.risk_score < 1000

\* C18: a successful response to a request with an age differs from the response
\* to the same request without age in risk_score, urgency and the reported age
\* only: recommendations, confidence, analysis and every other field are the
\* same, so a response the age raised from "moderate" to "high" starts with the
\* entries of the "moderate" table and has no entry of the "high" table that is
\* not also in the list without age.
C18_RecommendationsBeforeAge ==
    (Succeeded /\ "age" \in DOMAIN response) =>
        LET base == ResponseWithoutAge
        IN  /\ DOMAIN response = DOMAIN base \cup {"age"}
            /\ \A f \in DOMAIN base \ {"risk_score", "urgency"} : response[f] = base[f]
            /\ (base.urgency = "moderate" /\ response.urgency = "high") =>
                  /\ response.recommendations[1] =
                        model_data.urgency_recommendations["moderate"][1]
                  /\ response.recommendations =
                        get_recommendations(request.symptoms, "moderate",
                                            prediction.risk_score, model_data, hash_order)

\* C18 witness: the age raised the urgency from "moderate" to "high" and the
\* risk score from below 8 to 8 or more; the list is still the "moderate" one.
C18_Witness ==
    /\ Succeeded
    /\ "age" \in DOMAIN response /\ response.age > 60
    /\ ResponseWithoutAge.urgency = "moderate"
    /\ response.urgency = "high"
    /\ prediction.risk_score < 800 /\ response.risk_score >= 800
    /\ response.recommendations[1] = model_data.urgency_recommendations["moderate"][1]
    /\ ~InSeq(model_data.urgency_recommendations["high"][1], response.recommendations)

\* get_recommendations has returned call.result.
RecommendationsReturned == call.fn = "get_recommendations" /\ call.returned

\* The positions of a list whose string does not occur at an earlier position.
FirstPositions(list) ==
    {i \in 1..Len(list) : \A j \in 1..(i - 1) : list[j] # list[i]}

\* The list without the later occurrences of its strings.
FirstOccurrences(list) ==
    LET F == FirstPositions(list)
    IN  [k \in 1..Cardinality(F) |->
            list[CHOOSE i \in F : Cardinality({j \in F : j <= i}) = k]]

\* The strings step 4 appended during the call.
MatchedWorkouts ==
    SubSeq(call.after_step4, Len(call.after_step3) + 1, Len(call.after_step4))

\* The five sources of the call in the order of the steps: the urgency table's
\* entries for the label, the blocks of the categories found, the general
\* recommendations, the workouts step 4 appended, the block of the risk tier.
SourcesInOrder ==
    (IF call.urgency \in DOMAIN model_data.urgency_recommendations
     THEN model_data.urgency_recommendations[call.urgency] ELSE <<>>)
    \o CategoryBlocks(CategoriesFound(CleanAll(call.symptoms), model_data, hash_order))
    \o model_data.general_workouts
    \o MatchedWorkouts
    \o RiskBlock(call.risk_score)

\* C19: the list get_recommendations returns is the first 15 entries of the
\* concatenation of its five sources, in the order of the steps, with every
\* string kept at its first occurrence only; it begins with the distinct entries
\* of the urgency table for the label, in table order.
C19_RecommendationOrder ==
    RecommendationsReturned =>
        LET distinct == FirstOccurrences(SourcesInOrder)
            head == FirstOccurrences(
                        IF call.urgency \in DOMAIN model_data.urgency_recommendations
                        THEN model_data.urgency_recommendations[call.urgency] ELSE <<>>)
        IN  /\ call.result = SubSeq(distinct, 1, Min(15, Len(distinct)))
            /\ Len(call.result) >= Min(15, Len(head))
            /\ \A k \in 1..Min(15, Len(head)) : call.result[k] = head[k]

\* C19 witness: the urgency table repeats a string, step 4 appended a workout,
\* the sources hold more than 15 distinct strings, and 15 are returned, the
\* last one from the risk block.
C19_Witness ==
    /\ RecommendationsReturned
    /\ call.urgency \in DOMAIN model_data.urgency_recommendations
    /\ FirstOccurrences(model_data.urgency_recommendations[call.urgency])
          # model_data.urgency_recommendations[call.urgency]
    /\ MatchedWorkouts # <<>>
    /\ Len(FirstOccurrences(SourcesInOrder)) > 15
    /\ Len(call.result) = 15
    /\ InSeq(call.result[15], RiskBlock(call.risk_score))

\* The disease entry d matches the normalized symptom: the symptom occurs in the
\* disease name or in one of its first three workout strings, letter case aside.
SymptomMatchesDisease(symptom, d) ==
    \/ Contains(symptom, Lower(d.disease))
    \/ \E k \in 1..Min(3, Len(d.workouts)) : Contains(symptom, Lower(d.workouts[k]))

\* C20: every string step 4 appended is one of the first 5 workouts of a disease
\* that matches a normalized input symptom, was not in the list before it was
\* appended, and was appended to a list of fewer than 15 entries: step 4 appends
\* nothing to a list that has 15 entries or more after step 3, and otherwise
\* leaves at most 15.
C20_WorkoutFill ==
    RecommendationsReturned =>
        /\ Len(call.after_step4) >= Len(call.after_step3)
        /\ SubSeq(call.after_step4, 1, Len(call.after_step3)) = call.after_step3
        /\ \A k \in (Len(call.after_step3) + 1)..Len(call.after_step4) :
              /\ \E i \in 1..Len(call.symptoms), j \in 1..Len(model_data.disease_workouts) :
                    /\ SymptomMatchesDisease(CleanAll(call.symptoms)[i],
                                             model_data.disease_workouts[j])
                    /\ \E w \in 1..Min(5, Len(model_data.disease_workouts[j].workouts)) :
                          model_data.disease_workouts[j].workouts[w] = call.after_step4[k]
              /\ \A j \in 1..(k - 1) : call.after_step4[j] # call.after_step4[k]
              /\ k - 1 < 15
        /\ Len(call.after_step3) >= 15 => call.after_step4 = call.after_step3
        /\ Len(call.after_step3) < 15 => Len(call.after_step4) <= 15

\* C20 witness: step 4 started below 15, filled the list to 15 and left out a
\* workout, among the first 5 of a matching disease, that the list did not hold.
C20_Witness ==
    /\ RecommendationsReturned
    /\ Len(call.after_step3) < 15
    /\ Len(call.after_step4) = 15
    /\ \E i \in 1..Len(call.symptoms), j \in 1..Len(model_data.disease_workouts) :
          /\ SymptomMatchesDisease(CleanAll(call.symptoms)[i], model_data.disease_workouts[j])
          /\ \E w \in 1..Min(5, Len(model_data.disease_workouts[j].workouts)) :
                ~InSeq(model_data.disease_workouts[j].workouts[w], call.after_step4)

\* The strings step 5 appended during the call.
RiskTierAppended ==
    SubSeq(call.after_step5, Len(call.after_step4) + 1, Len(call.after_step5))

\* C21: step 5 appends exactly four strings to the list step 4 left: the
\* emergency block when the risk score is 8 or more, the moderate block when it
\* is at least 5 and below 8, the low block below 5, whatever the urgency label.
C21_RiskTierBlock ==
    RecommendationsReturned =>
        /\ SubSeq(call.after_step5, 1, Len(call.after_step4)) = call.after_step4
        /\ Len(call.after_step5) = Len(call.after_step4) + 4
        /\ call.risk_score >= 800 =>
              RiskTierAppended = << "(!) DO NOT DELAY - Seek emergency care immediately",
                                    "Have someone drive you to the hospital",
                                    "Keep your phone charged and nearby",
                                    "Inform someone of your situation" >>
        /\ (call.risk_score >= 500 /\ call.risk_score < 800) =>
              RiskTierAppended = << "Schedule medical appointment within 24 hours",
                                    "Avoid driving if feeling unwell",
                                    "Keep a symptom diary",
                                    "Check temperature regularly" >>
        /\ call.risk_score < 500 =>
              RiskTierAppended = << "Monitor symptoms for changes",
                                    "Consider telemedicine consultation",
                                    "Practice good self-care",
                                    "Follow up if symptoms persist beyond 3 days" >>

\* C21 witness: the label is "low" and the risk score is exactly 8: the
\* emergency block is appended.
C21_Witness ==
    /\ RecommendationsReturned
    /\ call.urgency = "low"
    /\ call.risk_score = 800
    /\ RiskTierAppended[1] = "(!) DO NOT DELAY - Seek emergency care immediately"

\* predict_severity_and_urgency has returned call.result.
ScoringReturned == call.fn = "predict_severity_and_urgency" /\ call.returned

\* C22: when every model call succeeds for a non-empty list, mlSeverity is the
\* severity model's output clamped to [0, 10], and riskScore is the multiple of
\* 0.1 nearest to 0.7 * mlSeverity + 0.3 * ruleBasedScore, which lies in
\* [0, 10]; ruleBasedScore is a multiple of 0.1 in [0, 10].
C22_BlendedRiskScore ==
    (ScoringReturned /\ call.symptoms # <<>> /\ call.ml.fail = "none") =>
        LET r == call.result
            blend10 == 7 * r.ml_severity + 3 * r.rule_based_score
        IN  /\ r.ml_severity = IF call.ml.severity < 0 THEN 0
                               ELSE IF call.ml.severity > 1000 THEN 1000
                               ELSE call.ml.severity
            /\ r.rule_based_score % 10 = 0
            /\ 0 <= r.rule_based_score /\ r.rule_based_score <= 1000
            /\ r.risk_score % 10 = 0
            /\ 10 * r.risk_score - blend10 <= 50
            /\ blend10 - 10 * r.risk_score <= 50
            /\ 0 <= r.risk_score /\ r.risk_score <= 1000

\* C22 witness: the model's output is above 10, mlSeverity is 10.0, the rule
\* score is below 10, and the risk score is strictly between the two.
C22_Witness ==
    /\ ScoringReturned /\ call.symptoms # <<>> /\ call.ml.fail = "none"
    /\ call.ml.severity > 1000
    /\ call.result.ml_severity = 1000
    /\ call.result.rule_based_score > 0
    /\ call.result.risk_score > call.result.rule_based_score
    /\ call.result.risk_score < 1000

\* calculate_risk_score(raw_severity) has returned call.result.
RuleScoreReturned == call.fn = "calculate_risk_score" /\ call.returned

\* C23: the rule-based score is 10.0 when the raw severity exceeds
\* MAX_REALISTIC_SCORE, otherwise the multiple of 0.1 nearest to
\* rawSeverity / MAX_REALISTIC_SCORE * 10; it lies in [0, 10], is 10.0 at
\* rawSeverity = MAX_REALISTIC_SCORE, and is not below the score of the raw
\* severity one lower.
C23_RuleBasedScore ==
    RuleScoreReturned =>
        LET raw == call.raw_severity
            max_realistic == model_data.max_realistic_score
        IN  /\ raw > max_realistic => call.result = 1000
            /\ raw <= max_realistic =>
                  /\ call.result % 10 = 0
                  /\ call.result * max_realistic - raw * 1000 <= 5 * max_realistic
                  /\ raw * 1000 - call.result * max_realistic <= 5 * max_realistic
            /\ 0 <= call.result /\ call.result <= 1000
            /\ raw = max_realistic => call.result = 1000
            /\ raw > 0 => calculate_risk_score(raw - 1, <<>>, model_data) <= call.result

\* C23 witness: a raw severity below the cap whose scaled value is not a
\* multiple of 0.1 (20 / 30 * 10 = 6.67 gives 6.7).
C23_Witness ==
    /\ RuleScoreReturned
    /\ model_data.max_realistic_score = 30
    /\ call.raw_severity = 20
    /\ call.result = 670

\* create_feature_vector(symptoms) has returned call.result.
FeatureVectorReturned == call.fn = "create_feature_vector" /\ call.returned

\* C25: the feature vector has the vocabulary's length, its entries are 0 or
\* 1, and entry i is 1 exactly when the normalized form of vocabulary entry i
\* is among the normalized input symptoms.
C25_FeatureVector ==
    FeatureVectorReturned =>
        LET vocabulary == model_data.symptoms
            cleaned == CleanAll(call.symptoms)
        IN  /\ Len(call.result) = Len(vocabulary)
            /\ \A i \in 1..Len(vocabulary) :
                  /\ call.result[i] \in {0, 1}
                  /\ call.result[i] = 1 <=>
                        \E j \in 1..Len(cleaned) :
                            cleaned[j] = clean_symptom_name(vocabulary[i])

\* C26: for an empty list predict_severity_and_urgency returns zeros without
\* calling a model, and the result has the fields risk_score, confidence,
\* raw_severity, rule_based_score and ml_severity.
C26_EmptyListResult ==
    (ScoringReturned /\ call.symptoms = <<>>) =>
        /\ call.model_calls = <<>>
        /\ {"risk_score", "confidence", "raw_severity", "rule_based_score",
             "ml_severity"} \subseteq DOMAIN call.result
        /\ call.result.risk_score = 0
        /\ call.result.ml_severity = 0
        /\ call.result.raw_severity = 0

RECURSIVE SumOver(_, _)
\* The sum of f[k] over the keys k of the set S.
SumOver(S, f) ==
    IF S = {} THEN 0
    ELSE LET k == CHOOSE x \in S : TRUE IN f[k] + SumOver(S \ {k}, f)

\* How many entries of the sequence equal x.
Occurrences(seq, x) == Cardinality({i \in 1..Len(seq) : seq[i] = x})

\* Each key of the weight table counted with its weight, once per occurrence
\* among the normalized symptoms of the request.
WeightOfRequest ==
    LET cleaned == CleanAll(request.symptoms)
        weights == model_data.symptom_weights
    IN  SumOver(DOMAIN weights,
                [k \in DOMAIN weights |-> weights[k] * Occurrences(cleaned, k)])

\* C24: the raw severity of a successful response, and the one the scorer
\* returned, is the sum over the weight table's keys of the weight times the
\* number of normalized input symptoms equal to the key: symptoms without a
\* weight add nothing, and membership in the vocabulary plays no part.
C24_RawSeverityIsWeightSum ==
    Succeeded =>
        /\ prediction.raw_severity = WeightOfRequest
        /\ response.analysis.raw_severity_score = WeightOfRequest

\* C24 witness: "migraine" has a weight and is not in the vocabulary, "fever"
\* is in the vocabulary and has no weight: the models get a vector with the
\* entry of fever alone, the raw severity is the weight of migraine.
C24_Witness ==
    /\ Succeeded
    /\ request.symptoms = <<"migraine", "fever">>
    /\ ~InSeq("migraine", model_data.symptoms)
    /\ "fever" \notin DOMAIN model_data.symptom_weights
    /\ calls # <<>> /\ calls[1].X = <<0, 1, 0, 0>>
    /\ response.analysis.raw_severity_score = 45

\* C27: in every successful response, with or without an age, a risk_score of
\* 8 or more comes with urgency "high" and a risk_score of 5 or more with
\* "moderate" or "high".
C27_RiskScoreBoundsUrgency ==
    Succeeded =>
        /\ response.risk_score >= 800 => response.urgency = "high"
        /\ response.risk_score >= 500 => response.urgency \in {"moderate", "high"}

\* C27 witness: the age adjustment carried the risk score from below 8 to 8
\* or more, and the label from "moderate" to "high".
C27_Witness ==
    /\ Succeeded /\ AgeOver60
    /\ ResponseWithoutAge.risk_score < 800
    /\ ResponseWithoutAge.urgency = "moderate"
    /\ response.risk_score >= 800
    /\ response.urgency = "high"

\* The strings of a list.
StringsOf(list) == {list[i] : i \in 1..Len(list)}

\* C28: a string that only step 5 supplied is in the returned list only when
\* steps 1 to 4 gave fewer than 15 distinct strings. When steps 1 to 3 give 15
\* or more distinct strings, the returned list is the first 15 of them, and a
\* string of the risk-tier block is in it only if an earlier step supplied the
\* same string; with the tables train_model.py registers no string of the
\* risk-tier block is in it at all, the "DO NOT DELAY" directive included.
C28_RiskTierCutOff ==
    RecommendationsReturned =>
        /\ (\E k \in 1..Len(call.result) : call.result[k] \notin StringsOf(call.after_step4))
              => Cardinality(StringsOf(call.after_step4)) < MaxRecommendations
        /\ Cardinality(StringsOf(call.after_step3)) >= MaxRecommendations =>
              /\ call.result = SubSeq(FirstOccurrences(call.after_step3), 1, MaxRecommendations)
              /\ StringsOf(RiskTierAppended) \cap StringsOf(call.result)
                    \subseteq StringsOf(call.after_step3)
              /\ model_data = TrainedPackage =>
                    StringsOf(RiskTierAppended) \cap StringsOf(call.result) = {}

\* C28 witness: the registered tables, a risk score of 8 or more, 15 or more
\* distinct strings after step 3, and a returned list without the directive.
C28_Witness ==
    /\ RecommendationsReturned
    /\ model_data = TrainedPackage
    /\ call.risk_score >= 800
    /\ Cardinality(StringsOf(call.after_step3)) >= MaxRecommendations
    /\ RiskTierAppended[1] = "(!) DO NOT DELAY - Seek emergency care immediately"
    /\ Len(call.result) = MaxRecommendations
    /\ "(!) DO NOT DELAY - Seek emergency care immediately" \notin StringsOf(call.result)

\* The positions of the request's list whose normalized symptom occurs at an
\* earlier position too.
RepeatedPositions ==
    LET cleaned == CleanAll(request.symptoms)
    IN  {i \in 1..Len(cleaned) : \E j \in 1..(i - 1) : cleaned[j] = cleaned[i]}

\* The request with each repeated symptom left out.
RequestWithoutRepetitions ==
    LET keep == (1..Len(request.symptoms)) \ RepeatedPositions
    IN  [request EXCEPT !.symptoms =
            [k \in 1..Cardinality(keep) |->
                request.symptoms[CHOOSE i \in keep : Cardinality({j \in keep : j <= i}) = k]]]

\* What predict() does with that request, the models answering the same.
WithoutRepetitions == HandlePredict(RequestWithoutRepetitions, model_data, ml, hash_order)

\* The weight of the symptom at position i of the request (0 without one).
WeightAt(i) ==
    LET s == CleanAll(request.symptoms)[i]
    IN  IF s \in DOMAIN model_data.symptom_weights THEN model_data.symptom_weights[s] ELSE 0

\* C29: against the same request with each repeated symptom left out, a
\* successful response to a list with repetitions has the raw severity raised
\* by the weight of every repeated occurrence, the models are called with the
\* same feature vector, and rule score, risk score and urgency are not lower.
C29_RepetitionAddsWeight ==
    (Succeeded /\ RepeatedPositions # {}) =>
        LET once == WithoutRepetitions
        IN  /\ prediction.raw_severity =
                  once.prediction.raw_severity
                  + SumOver(RepeatedPositions, [i \in RepeatedPositions |-> WeightAt(i)])
            /\ calls = once.calls
            /\ prediction.rule_based_score >= once.prediction.rule_based_score
            /\ response.risk_score >= once.response.risk_score
            /\ Rank(response.urgency) >= Rank(once.response.urgency)

\* C29 witness: a symptom sent twice, both models called, and raw severity,
\* rule score, risk score and urgency all above those of the symptom sent once.
C29_Witness ==
    /\ Succeeded /\ RepeatedPositions # {}
    /\ Len(calls) = 3
    /\ calls[1].X = WithoutRepetitions.calls[1].X
    /\ prediction.raw_severity > WithoutRepetitions.prediction.raw_severity
    /\ prediction.rule_based_score > WithoutRepetitions.prediction.rule_based_score
    /\ response.risk_score > WithoutRepetitions.response.risk_score
    /\ Rank(response.urgency) > Rank(WithoutRepetitions.response.urgency)

\* The response to the same request had the urgency model predicted another
\* class label with the same class probabilities.
ResponseWithOtherLabel ==
    HandlePredict(request, model_data,
                  [ml EXCEPT !.urgency.urgency_pred = (@ + 1) % 3],
                  hash_order).response

\* The response to the same request with MODERATE_THRESHOLD set to m.
ResponseWithModerateThreshold(m) ==
    HandlePredict(request, [model_data EXCEPT !.moderate_threshold = m],
                  ml, hash_order).response

\* A value of MODERATE_THRESHOLD on the other side of the request's raw
\* severity: any test of the raw severity against it has the other outcome.
OtherModerateThreshold ==
    IF prediction.raw_severity >= model_data.moderate_threshold
    THEN prediction.raw_severity + 1
    ELSE 0

====
